---- MODULE Spec2Model ----
(***************************************************************************)
(* smart-sorter: classification of the files of a directory tree by        *)
(* extension and their relocation into category folders.                   *)
(*                                                                         *)
(* The filesystem is the state.  A path is a sequence of file names        *)
(* relative to the target directory (<<>> is the target itself).  A file   *)
(* name is kept in the shape the program reads and writes it:              *)
(*     base [ "_" n ]* [ "." ext ]                                         *)
(* i.e. a record [base, nums, ext] where nums is the sequence of numeric   *)
(* "_n" suffixes of the stem and ext is <<>> (no extension) or <<e>>.      *)
(* "photo_1.jpg" is [base |-> "photo", nums |-> <<1>>, ext |-> <<"jpg">>]. *)
(* An optional value is <<>> (None) or <<v>> (Some(v)).                    *)
(***************************************************************************)
EXTENDS Integers, Sequences, FiniteSets, TLC

VARIABLES
    fs,        \* the directory tree: [nodes, dense, holes], see Tree
    recursive, \* SorterConfig.recursive
    pc,        \* position of Sorter::run: "idle", "dry", "precreate", "moving"
    dry_run,   \* SorterConfig.dry_run of the run in progress / last run
    plans,     \* Vec<FilePlan> of the run in progress
    idx,       \* number of plans the execute loop has processed
    stats,     \* SortStats of the run in progress / returned by the last run
    result,    \* what the last run returned: "none", "ok", "err"
    runs,      \* number of runs started
    fs0,       \* the tree at the start of the run in progress / last run
    attempts,  \* the move_file_with_dedup calls of the run in progress
    fsGen,     \* the tree the last generate_unique_path call looked at
    relocated, \* contents of the files the run in progress / last run moved
    prev       \* the run completed before the current one

vars == <<fs, recursive, pc, dry_run, plans, idx, stats, result, runs, fs0,
          attempts, fsGen, relocated, prev>>

---------------------------------------------------------------------------
(* Bounds of the model *)

\* runs of Sorter::run on the same tree
MaxRuns == 2
\* distinct wall-clock millisecond values SystemTime::now() may return
MaxClock == 2

---------------------------------------------------------------------------
(* File names and paths *)

Name(base, nums, ext) == [base |-> base, nums |-> nums, ext |-> ext]
Plain(base) == Name(base, <<>>, <<>>)
WithExt(base, e) == Name(base, <<>>, <<e>>)

Front(s) == SubSeq(s, 1, Len(s) - 1)
Last(s) == s[Len(s)]

\* Path::join
join(dir, name) == Append(dir, name)
\* Path::file_name
file_name(path) == IF path = <<>> THEN <<>> ELSE <<Last(path)>>
\* Path::parent
parent(path) == IF path = <<>> THEN <<>> ELSE <<Front(path)>>
\* Path::file_stem: the name without its extension
file_stem(name) == [base |-> name.base, nums |-> name.nums]
\* Path::extension
extension(name) == name.ext

target_dir == <<>>

---------------------------------------------------------------------------
(* config.rs *)

CategoryAll ==
    <<"Images", "Videos", "Documents", "Music", "Archives", "Code", "Others">>

Category == {CategoryAll[i] : i \in 1..Len(CategoryAll)}

folder_name(c) == Plain(c)

image_extensions ==
    {"jpg", "jpeg", "png", "gif", "bmp", "svg", "webp", "ico", "tiff", "tif",
     "heic", "heif", "raw", "cr2", "nef", "arw", "dng", "psd", "ai", "eps"}

video_extensions ==
    {"mp4", "avi", "mkv", "mov", "wmv", "flv", "webm", "m4v", "mpeg", "mpg",
     "3gp", "3g2", "vob", "ogv", "mts", "m2ts", "ts"}

document_extensions ==
    {"pdf", "doc", "docx", "xls", "xlsx", "ppt", "pptx", "txt", "rtf", "odt",
     "ods", "odp", "csv", "pages", "numbers", "key", "epub", "mobi", "djvu",
     "xps"}

music_extensions ==
    {"mp3", "wav", "flac", "aac", "ogg", "wma", "m4a", "aiff", "aif", "ape",
     "alac", "opus", "mid", "midi"}

archive_extensions ==
    {"zip", "rar", "7z", "tar", "gz", "bz2", "xz", "dmg", "iso", "tgz", "tbz2",
     "txz", "cab", "lzh", "lha", "z", "sit", "sitx"}

code_extensions ==
    {"rs", "py", "js", "ts", "jsx", "tsx", "html", "htm", "css", "scss",
     "sass", "less", "json", "xml", "yaml", "yml", "toml", "md", "markdown",
     "sh", "bash", "zsh", "fish", "c", "cpp", "cc", "cxx", "h", "hpp", "hxx",
     "go", "java", "kt", "kts", "scala", "rb", "php", "pl", "pm", "swift",
     "m", "mm", "sql", "r", "lua", "vim", "el", "clj", "cljs", "edn", "ex",
     "exs", "erl", "hrl", "hs", "lhs", "ml", "mli", "fs", "fsi", "fsx",
     "dockerfile", "makefile", "cmake", "gradle", "sbt", "cabal"}

\* HashMap::get on EXTENSION_MAP.  The map is filled group by group with
\* insert, so a key of two groups keeps the value inserted last.
EXTENSION_MAP(key) ==
    IF key \in code_extensions THEN <<"Code">>
    ELSE IF key \in archive_extensions THEN <<"Archives">>
    ELSE IF key \in music_extensions THEN <<"Music">>
    ELSE IF key \in document_extensions THEN <<"Documents">>
    ELSE IF key \in video_extensions THEN <<"Videos">>
    ELSE IF key \in image_extensions THEN <<"Images">>
    ELSE <<>>

\* str::to_lowercase on the extensions the model's trees use
to_lowercase(s) ==
    CASE s = "JPG" -> "jpg"
      [] s = "PNG" -> "png"
      [] s = "PnG" -> "png"
      [] s = "Pdf" -> "pdf"
      [] s = "TS" -> "ts"
      [] s = "XYZ" -> "xyz"
      [] OTHER -> s

\* get_category without to_lowercase
get_category_as_spelled(ext) ==
    LET Lookup(found) == IF found # <<>> THEN found[1] ELSE "Others"
    IN  Lookup(EXTENSION_MAP(ext))

get_category(ext) ==
    LET Lookup(found) == IF found # <<>> THEN found[1] ELSE "Others"
    IN  Lookup(EXTENSION_MAP(to_lowercase(ext)))

get_default_category == "Others"

---------------------------------------------------------------------------
(* The filesystem the program works on *)

\* the counters generate_unique_path tries before it gives up
MaxAttempts == 10000

\* format!("{}_{}.{}", stem, counter, ext) / format!("{}_{}", stem, counter)
new_filename(filename, counter) ==
    IF extension(filename) # <<>>
    THEN Name(file_stem(filename).base,
              Append(file_stem(filename).nums, counter),
              <<extension(filename)[1]>>)
    ELSE Name(file_stem(filename).base,
              Append(file_stem(filename).nums, counter), <<>>)

\* format!("{}_{}_{}.{}", stem, counter, timestamp, ext) and its no-ext form
fallback_filename(filename, counter, timestamp) ==
    IF extension(filename) # <<>>
    THEN Name(file_stem(filename).base,
              file_stem(filename).nums \o <<counter, timestamp>>,
              <<extension(filename)[1]>>)
    ELSE Name(file_stem(filename).base,
              file_stem(filename).nums \o <<counter, timestamp>>, <<>>)

\* Nodes.  dev is the device (mounted filesystem) a directory lives on; a
\* file lives on the device of its directory.  to is a symbolic link's
\* target, a real path of the tree that may or may not exist.
FileNode(d) ==
    [kind |-> "file", data |-> d, readable |-> TRUE, writable |-> TRUE,
     dev |-> 0, to |-> <<>>]
\* a regular file the user may not read
LockedFileNode(d) == [FileNode(d) EXCEPT !.readable = FALSE]
DirNode(r, w, dv) ==
    [kind |-> "dir", data |-> 0, readable |-> r, writable |-> w,
     dev |-> dv, to |-> <<>>]
LinkNode(t) ==
    [kind |-> "symlink", data |-> 0, readable |-> TRUE, writable |-> TRUE,
     dev |-> 0, to |-> t]

\* A tree is [nodes, dense, holes]: nodes maps real paths to nodes; every
\* d in dense stands for the MaxAttempts regular files
\*     d.dir / new_filename(d.name, 1) .. d.dir / new_filename(d.name, 10000)
\* except those in holes (a directory in which every counter-suffixed
\* candidate of a name is taken is written down in this way, not entry by
\* entry).
Tree(nodes) == [nodes |-> nodes, dense |-> {}, holes |-> {}]

InDense(f, p) ==
    /\ p # <<>>
    /\ Last(p).nums # <<>>
    /\ [dir |-> Front(p),
        name |-> Name(Last(p).base, Front(Last(p).nums), Last(p).ext)]
            \in f.dense
    /\ Last(Last(p).nums) \in 1..MaxAttempts
    /\ p \notin f.holes

\* the path names an entry of the tree / the node of that entry
Has(f, p) == p \in DOMAIN f.nodes \/ InDense(f, p)
Node(f, p) ==
    IF p \in DOMAIN f.nodes THEN f.nodes[p]
    ELSE FileNode(100 + Last(Last(p).nums))

IsDirAt(f, p) == Has(f, p) /\ Node(f, p).kind = "dir"

\* The real directory a path names, every symbolic link on the way followed
RECURSIVE CanonDir(_, _)
CanonDir(f, p) ==
    LET At(e) ==
            IF ~Has(f, e) THEN <<>>
            ELSE IF Node(f, e).kind = "dir" THEN <<e>>
            ELSE IF Node(f, e).kind = "symlink" /\ IsDirAt(f, Node(f, e).to)
                 THEN <<Node(f, e).to>>
            ELSE <<>>
        Under(par) ==
            IF par = <<>> THEN <<>> ELSE At(Append(par[1], Last(p)))
    IN  IF p = <<>>
        THEN IF IsDirAt(f, <<>>) THEN << <<>> >> ELSE <<>>
        ELSE Under(CanonDir(f, Front(p)))

\* The directory entry a path names (lstat): its last component not followed
Entry(f, p) ==
    LET Under(par) ==
            IF par = <<>> THEN <<>> ELSE <<Append(par[1], Last(p))>>
    IN  IF p = <<>> THEN << <<>> >> ELSE Under(CanonDir(f, Front(p)))

\* The node a path names (stat): its last component followed too
Final(f, p) ==
    LET Follow(e) ==
            IF e = <<>> THEN <<>>
            ELSE IF Has(f, e[1]) /\ Node(f, e[1]).kind = "symlink"
                 THEN <<Node(f, e[1]).to>>
            ELSE e
    IN  Follow(Entry(f, p))

\* the node at an optional real path is of the given kind
IsKind(f, t, kind) == t # <<>> /\ Has(f, t[1]) /\ Node(f, t[1]).kind = kind

\* Path::exists
exists(f, p) ==
    LET There(t) == t # <<>> /\ Has(f, t[1]) IN There(Final(f, p))

\* file_ops.rs: is_directory, is_file, is_symlink
is_directory(f, p) == IsKind(f, Final(f, p), "dir")

is_file(f, p) == IsKind(f, Final(f, p), "file")

is_symlink(f, p) == IsKind(f, Entry(f, p), "symlink")

\* f with entry p set to node n / with entry p removed
Put(f, p, n) ==
    [f EXCEPT !.nodes = [q \in DOMAIN f.nodes \cup {p} |->
                            IF q = p THEN n ELSE f.nodes[q]]]
Del(f, p) ==
    [f EXCEPT !.nodes = [q \in DOMAIN f.nodes \ {p} |-> f.nodes[q]],
              !.holes = IF InDense(f, p) THEN @ \cup {p} ELSE @]

Ok(f) == [ok |-> TRUE, err |-> "", fs |-> f]
Err(e, f) == [ok |-> FALSE, err |-> e, fs |-> f]

\* mkdir(2)
mkdir(f, p) ==
    LET Make(e) ==
            IF e = <<>>
            THEN Err(IF exists(f, Front(p)) THEN "NotADirectory"
                     ELSE "NotFound", f)
            ELSE IF Has(f, e[1]) THEN Err("Exists", f)
            ELSE IF ~Node(f, Front(e[1])).writable
            THEN Err("PermissionDenied", f)
            ELSE Ok(Put(f, e[1],
                        DirNode(TRUE, TRUE, Node(f, Front(e[1])).dev)))
    IN  IF p = <<>> THEN Err("Exists", f) ELSE Make(Entry(f, p))

\* std::fs::create_dir_all
RECURSIVE create_dir_all(_, _)
create_dir_all(f, p) ==
    LET Again(g, second) ==
            IF second.ok THEN second
            ELSE IF is_directory(g, p) THEN Ok(g) ELSE second
        Parent(up) == IF ~up.ok THEN up ELSE Again(up.fs, mkdir(up.fs, p))
        First(first) ==
            IF first.ok THEN first
            ELSE IF first.err # "NotFound"
            THEN IF is_directory(f, p) THEN Ok(f) ELSE first
            ELSE IF p = <<>> THEN first
            ELSE Parent(create_dir_all(f, Front(p)))
    IN  First(mkdir(f, p))

\* rename(2) of a regular file
rename(f, src, dst) ==
    LET Move(s, d) ==
            IF s = <<>> \/ d = <<>> THEN Err("NotFound", f)
            ELSE IF ~Has(f, s[1]) THEN Err("NotFound", f)
            ELSE IF \/ ~Node(f, Front(s[1])).writable
                    \/ ~Node(f, Front(d[1])).writable
            THEN Err("PermissionDenied", f)
            ELSE IF Node(f, Front(s[1])).dev # Node(f, Front(d[1])).dev
            THEN Err("CrossesDevices", f)
            ELSE IF Has(f, d[1]) /\ Node(f, d[1]).kind = "dir"
            THEN Err("IsADirectory", f)
            ELSE IF s[1] = d[1] THEN Ok(f)
            ELSE Ok(Put(Del(f, s[1]), d[1], Node(f, s[1])))
    IN  Move(Entry(f, src), Entry(f, dst))

\* std::fs::copy: the source is opened for reading, the destination with
\* create + truncate
copy(f, src, dst) ==
    LET Write(s, d) ==
            IF s = <<>> \/ d = <<>> THEN Err("NotFound", f)
            ELSE IF ~Has(f, s[1]) \/ Node(f, s[1]).kind # "file"
            THEN Err("NotFound", f)
            ELSE IF ~Node(f, s[1]).readable THEN Err("PermissionDenied", f)
            ELSE IF Has(f, d[1])
            THEN IF Node(f, d[1]).kind # "file" THEN Err("IsADirectory", f)
                 ELSE Ok(Put(f, d[1], FileNode(Node(f, s[1]).data)))
            ELSE IF d[1] = <<>> \/ ~IsDirAt(f, Front(d[1]))
            THEN Err("NotFound", f)
            ELSE IF ~Node(f, Front(d[1])).writable
            THEN Err("PermissionDenied", f)
            ELSE Ok(Put(f, d[1], FileNode(Node(f, s[1]).data)))
    IN  Write(Final(f, src), Final(f, dst))

\* std::fs::remove_file (unlink)
remove_file(f, p) ==
    LET Unlink(e) ==
            IF e = <<>> THEN Err("NotFound", f)
            ELSE IF ~Has(f, e[1]) THEN Err("NotFound", f)
            ELSE IF Node(f, e[1]).kind = "dir" THEN Err("IsADirectory", f)
            ELSE IF ~Node(f, Front(e[1])).writable
            THEN Err("PermissionDenied", f)
            ELSE Ok(Del(f, e[1]))
    IN  Unlink(Entry(f, p))

\* std::fs::read_dir that never fails
can_read_dir_always(f, p) == TRUE

\* std::fs::read_dir succeeds
can_read_dir(f, p) ==
    LET Open(t) == t # <<>> /\ IsDirAt(f, t[1]) /\ Node(f, t[1]).readable
    IN  Open(Final(f, p))

\* the entries read_dir yields for a real directory
children(f, dir) ==
    {p \in DOMAIN f.nodes :
        Len(p) = Len(dir) + 1 /\ SubSeq(p, 1, Len(dir)) = dir}
    \cup (UNION {{join(dir, new_filename(d.name, k)) : k \in 1..MaxAttempts} :
                    d \in {d \in f.dense : d.dir = dir}} \ f.holes)

---------------------------------------------------------------------------
(* file_ops.rs *)

\* The loop of generate_unique_path over the counters from..to, tested in
\* increasing order: the first counter whose candidate does not exist, 0 when
\* all of them exist.  The range is walked half by half, the upper half only
\* when the lower one holds no free candidate (the evaluation stack does not
\* hold 10000 nested iterations).
RECURSIVE Scan(_, _, _, _, _)
Scan(f, dest_dir, filename, from, to) ==
    LET Lower(mid, hit) ==
            IF hit # 0 THEN hit ELSE Scan(f, dest_dir, filename, mid + 1, to)
        Halves(mid) == Lower(mid, Scan(f, dest_dir, filename, from, mid))
    IN  IF from = to
        THEN IF ~exists(f, join(dest_dir, new_filename(filename, from)))
             THEN from ELSE 0
        ELSE Halves((from + to) \div 2)

\* generate_unique_path without any existence check
generate_unique_path_unchecked(f, dest_dir, filename, now) ==
    join(dest_dir, filename)

\* generate_unique_path without the check of the plain name
generate_unique_path_suffixing(f, dest_dir, filename, now) ==
    LET Found(hit) ==
            IF hit # 0 THEN join(dest_dir, new_filename(filename, hit))
            ELSE join(dest_dir,
                      fallback_filename(filename, MaxAttempts + 1, now))
    IN  Found(Scan(f, dest_dir, filename, 1, MaxAttempts))

\* generate_unique_path with the counter starting at 2
generate_unique_path_from_two(f, dest_dir, filename, now) ==
    LET Found(hit) ==
            IF hit # 0 THEN join(dest_dir, new_filename(filename, hit))
            ELSE join(dest_dir,
                      fallback_filename(filename, MaxAttempts + 1, now))
    IN  IF ~exists(f, join(dest_dir, filename)) THEN join(dest_dir, filename)
        ELSE Found(Scan(f, dest_dir, filename, 2, MaxAttempts))

\* generate_unique_path that goes on to one more candidate after MaxAttempts
generate_unique_path_one_more(f, dest_dir, filename, now) ==
    LET Found(hit) ==
            IF hit # 0 THEN join(dest_dir, new_filename(filename, hit))
            ELSE join(dest_dir,
                      fallback_filename(filename, MaxAttempts + 2, now))
    IN  IF ~exists(f, join(dest_dir, filename)) THEN join(dest_dir, filename)
        ELSE Found(Scan(f, dest_dir, filename, 1, MaxAttempts + 1))

\* now: the milliseconds SystemTime::now() returns if the loop runs out
generate_unique_path(f, dest_dir, filename, now) ==
    LET Found(hit) ==
            IF hit # 0 THEN join(dest_dir, new_filename(filename, hit))
            ELSE join(dest_dir,
                      fallback_filename(filename, MaxAttempts + 1, now))
    IN  IF ~exists(f, join(dest_dir, filename)) THEN join(dest_dir, filename)
        ELSE Found(Scan(f, dest_dir, filename, 1, MaxAttempts))

ensure_directory(f, path) ==
    IF ~exists(f, path) THEN create_dir_all(f, path) ELSE Ok(f)

\* move_file that deletes the source whether or not the copy succeeded
move_file_deleting(f, source, destination) ==
    LET Removed(copied, removed) ==
            IF ~copied.ok THEN Err("CopyFailed", removed.fs) ELSE removed
        Copied(copied) == Removed(copied, remove_file(copied.fs, source))
        Renamed(renamed) ==
            IF renamed.ok THEN renamed
            ELSE Copied(copy(f, source, destination))
    IN  Renamed(rename(f, source, destination))

move_file(f, source, destination) ==
    LET Copied(copied) ==
            IF ~copied.ok THEN copied ELSE remove_file(copied.fs, source)
        Renamed(renamed) ==
            IF renamed.ok THEN renamed
            ELSE Copied(copy(f, source, destination))
    IN  Renamed(rename(f, source, destination))

\* MoveResult that never reports a renaming
MoveResultNeverRenamed(ok, f, destination, was_renamed, seen) ==
    [ok |-> ok, fs |-> f, destination |-> destination,
     was_renamed |-> FALSE, seen |-> seen]

\* Result<MoveResult>; seen is the tree generate_unique_path looked at
MoveResult(ok, f, destination, was_renamed, seen) ==
    [ok |-> ok, fs |-> f, destination |-> destination,
     was_renamed |-> was_renamed, seen |-> seen]

\* move_file_with_dedup with a resolver that remembers the tree of the start
\* of the run instead of looking at the filesystem on every call
move_file_with_dedup_cached(f, source, dest_dir, now) ==
    LET Moved(g, final_dest, was_renamed, moved) ==
            MoveResult(moved.ok, moved.fs, <<final_dest>>, was_renamed, <<g>>)
        Unique(g, original_dest, final_dest) ==
            Moved(g, final_dest, final_dest # original_dest,
                  move_file(g, source, final_dest))
        Ensured(filename, ensured) ==
            IF ~ensured.ok
            THEN MoveResult(FALSE, ensured.fs, <<>>, FALSE, <<>>)
            ELSE Unique(ensured.fs, join(dest_dir, filename),
                        generate_unique_path(fs0, dest_dir, filename, now))
        Named(filename) ==
            IF filename = <<>> THEN MoveResult(FALSE, f, <<>>, FALSE, <<>>)
            ELSE Ensured(filename[1], ensure_directory(f, dest_dir))
    IN  Named(file_name(source))

move_file_with_dedup(f, source, dest_dir, now) ==
    LET Moved(g, final_dest, was_renamed, moved) ==
            MoveResult(moved.ok, moved.fs, <<final_dest>>, was_renamed, <<g>>)
        Unique(g, original_dest, final_dest) ==
            Moved(g, final_dest, final_dest # original_dest,
                  move_file(g, source, final_dest))
        Ensured(filename, ensured) ==
            IF ~ensured.ok
            THEN MoveResult(FALSE, ensured.fs, <<>>, FALSE, <<>>)
            ELSE Unique(ensured.fs, join(dest_dir, filename),
                        generate_unique_path(ensured.fs, dest_dir, filename,
                                             now))
        Named(filename) ==
            IF filename = <<>> THEN MoveResult(FALSE, f, <<>>, FALSE, <<>>)
            ELSE Ensured(filename[1], ensure_directory(f, dest_dir))
    IN  Named(file_name(source))

get_extension(path) ==
    LET Ext(name) ==
            IF name = <<>> \/ extension(name[1]) = <<>> THEN <<>>
            ELSE <<to_lowercase(extension(name[1])[1])>>
    IN  Ext(file_name(path))

---------------------------------------------------------------------------
(* sorter.rs *)

\* SortStats::default() with a counter that does not start at zero
DefaultStatsSkipping ==
    [total_files |-> 0, moved_files |-> 0, renamed_files |-> 0,
     skipped_files |-> 1, error_count |-> 0,
     category_counts |-> [c \in {} |-> 0]]

\* SortStats::default()
DefaultStats ==
    [total_files |-> 0, moved_files |-> 0, renamed_files |-> 0,
     skipped_files |-> 0, error_count |-> 0,
     category_counts |-> [c \in {} |-> 0]]

\* the category count that is inserted but not incremented
count_category_once(counts, category) ==
    [c \in DOMAIN counts \cup {category} |->
        IF c = category THEN 1 ELSE counts[c]]

\* *category_counts.entry(category).or_insert(0) += 1
count_category(counts, category) ==
    [c \in DOMAIN counts \cup {category} |->
        IF c = category
        THEN (IF c \in DOMAIN counts THEN counts[c] ELSE 0) + 1
        ELSE counts[c]]

\* the comparison with the category folder names that never matches
is_category_name_never(name) == FALSE

\* Category::all().iter().any(|c| c.folder_name() == folder_name)
is_category_name(name) ==
    \E i \in 1..Len(CategoryAll) : folder_name(CategoryAll[i]) = name

is_category_folder(path) ==
    LET Named(par, name) ==
            IF name = <<>> THEN FALSE
            ELSE IF parent(par) = <<target_dir>>
                 THEN is_category_name(name[1])
            ELSE FALSE
        Under(par) == IF par = <<>> THEN FALSE
                      ELSE Named(par[1], file_name(par[1]))
    IN  Under(parent(path))

\* the orders in which read_dir may yield a set of entries
Orders(S) ==
    {o \in [1..Cardinality(S) -> S] :
        \A i, j \in 1..Cardinality(S) : o[i] = o[j] => i = j}

\* what a walk over the entries in `order` collects, yield[p] being the
\* vectors entry p may contribute
RECURSIVE Chain(_, _, _)
Chain(order, yield, i) ==
    IF i > Len(order) THEN {<<>>}
    ELSE {a \o b : a \in yield[order[i]], b \in Chain(order, yield, i + 1)}

\* collect_files that stays out of the directories named like a category
\* only directly under the target
RECURSIVE collect_files_top_level(_, _, _)
collect_files_top_level(f, rec, dir) ==
    LET Walk(yield) ==
            UNION {Chain(o, yield, 1) :
                     o \in Orders({p \in DOMAIN yield : yield[p] # {<<>>}})}
    IN  IF ~can_read_dir(f, dir) THEN {}
        ELSE Walk([p \in children(f, dir) |->
                 IF is_symlink(f, p) THEN {<<>>}
                 ELSE IF is_file(f, p)
                 THEN IF is_category_folder(p) THEN {<<>>} ELSE {<<p>>}
                 ELSE IF is_directory(f, p) /\ rec
                 THEN IF is_category_name(Last(p)) /\ Len(p) = 1 THEN {<<>>}
                      ELSE collect_files_top_level(f, rec, p)
                 ELSE {<<>>}])

\* The vectors collect_files(dir) may return, one for every order in which
\* read_dir may yield the entries; no vector at all when it returns Err.
RECURSIVE collect_files(_, _, _)
collect_files(f, rec, dir) ==
    LET \* entries that contribute nothing in any order are left out of the
        \* orders
        Walk(yield) ==
            UNION {Chain(o, yield, 1) :
                     o \in Orders({p \in DOMAIN yield : yield[p] # {<<>>}})}
    IN  IF ~can_read_dir(f, dir) THEN {}
        ELSE Walk([p \in children(f, dir) |->
                 IF is_symlink(f, p) THEN {<<>>}
                 ELSE IF is_file(f, p)
                 THEN IF is_category_folder(p) THEN {<<>>} ELSE {<<p>>}
                 ELSE IF is_directory(f, p) /\ rec
                 THEN IF is_category_name(Last(p)) THEN {<<>>}
                      ELSE collect_files(f, rec, p)
                 ELSE {<<>>}])

categorize_file(path) ==
    LET Of(ext) ==
            IF ext # <<>> THEN get_category(ext[1]) ELSE get_default_category
    IN  Of(get_extension(path))

FilePlan(f, file) ==
    LET Plan(category, destination) ==
            [source |-> file, destination |-> destination,
             category |-> category, has_conflict |-> exists(f, destination)]
        To(category) ==
            Plan(category, join(join(target_dir, folder_name(category)),
                                file_name(file)[1]))
    IN  To(categorize_file(file))

create_plans(f, files) == [i \in 1..Len(files) |-> FilePlan(f, files[i])]

\* the loop of execute_dry_run over plans[i..]
RECURSIVE dry_run_from(_, _, _)
dry_run_from(ps, i, st) ==
    IF i > Len(ps) THEN st
    ELSE dry_run_from(ps, i + 1,
            [st EXCEPT
                !.category_counts = count_category(@, ps[i].category),
                !.renamed_files = IF ps[i].has_conflict THEN @ + 1 ELSE @,
                !.moved_files = @ + 1])

execute_dry_run(ps) ==
    dry_run_from(ps, 1, [DefaultStats EXCEPT !.total_files = Len(ps)])

\* execute_move's first loop with ensure_directory for every category,
\* planned or not
RECURSIVE precreate_from_every(_, _, _)
precreate_from_every(f, ps, i) ==
    LET Made(made) ==
            IF ~made.ok THEN made
            ELSE precreate_from_every(made.fs, ps, i + 1)
    IN  IF i > Len(CategoryAll) THEN Ok(f)
        ELSE Made(ensure_directory(f, join(target_dir,
                                           folder_name(CategoryAll[i]))))

\* execute_move's first loop: over Category::all(), ensure_directory for
\* every category some plan has; stops at the first error
RECURSIVE precreate_from(_, _, _)
precreate_from(f, ps, i) ==
    LET Made(made) ==
            IF ~made.ok THEN made ELSE precreate_from(made.fs, ps, i + 1)
    IN  IF i > Len(CategoryAll) THEN Ok(f)
        ELSE IF \E k \in 1..Len(ps) : ps[k].category = CategoryAll[i]
        THEN Made(ensure_directory(f, join(target_dir,
                                           folder_name(CategoryAll[i]))))
        ELSE precreate_from(f, ps, i + 1)

---------------------------------------------------------------------------
(* The trees a run may be started on *)

photo == WithExt("photo", "jpg")
doc == WithExt("doc", "pdf")
note == Plain("note")
sub == Plain("sub")
inner == Plain("inner")
link == Plain("link")
gone == Plain("gone")
Images == folder_name("Images")
Others == folder_name("Others")

NoNodes == [p \in {} |-> 0]

Root(r, w) == (<<>> :> DirNode(r, w, 0))

\* regular files directly under the target
TopFiles ==
    (<<photo>> :> FileNode(1)) @@ (<<doc>> :> FileNode(2))
    @@ (<<note>> :> FileNode(3))

Restrict(f, S) == [p \in S |-> f[p]]

\* an Images folder that already holds photo.jpg, photo_1.jpg .. photo_n.jpg
ImagesUpTo(n, w) ==
    [p \in {<<Images>>} \cup {<<Images, photo>>}
            \cup {<<Images, new_filename(photo, k)>> : k \in 1..n} |->
        IF p = <<Images>> THEN DirNode(TRUE, w, 0)
        ELSE FileNode(100 + (IF p[2].nums = <<>> THEN 0 ELSE p[2].nums[1]))]

\* files directly under the target, with or without an Images folder
BasicTrees ==
    {Tree(Root(TRUE, TRUE) @@ Restrict(TopFiles, T) @@ img) :
        T \in SUBSET DOMAIN TopFiles,
        img \in {NoNodes, ImagesUpTo(0, TRUE), ImagesUpTo(1, TRUE)}}

\* a subdirectory sub holding a second photo.jpg: plain; with a folder named
\* Images below it; read-only; on another device; unreadable; with a deeper
\* directory; with symbolic links to it and to its file beside it
SubChoices ==
    {(<<sub>> :> DirNode(TRUE, TRUE, 0)),
     (<<sub>> :> DirNode(TRUE, TRUE, 0))
        @@ (<<sub, Images>> :> DirNode(TRUE, TRUE, 0))
        @@ (<<sub, Images, WithExt("deep", "PNG")>> :> FileNode(5)),
     (<<sub>> :> DirNode(TRUE, FALSE, 0)),
     (<<sub>> :> DirNode(TRUE, TRUE, 1)),
     (<<sub>> :> DirNode(FALSE, TRUE, 0)),
     (<<sub>> :> DirNode(TRUE, TRUE, 0))
        @@ (<<sub, inner>> :> DirNode(TRUE, TRUE, 0))
        @@ (<<sub, inner, WithExt("pic", "PnG")>> :> FileNode(6)),
     (<<sub>> :> DirNode(TRUE, TRUE, 0))
        @@ (<<link>> :> LinkNode(<<sub>>))
        @@ (<<WithExt("link", "jpg")>> :> LinkNode(<<sub, photo>>))}

\* the entry named Images: none; a folder holding photo.jpg; a read-only
\* folder; a symbolic link to sub; a symbolic link to nothing
ImagesChoices ==
    {NoNodes, ImagesUpTo(0, TRUE), ImagesUpTo(0, FALSE),
     (<<Images>> :> LinkNode(<<sub>>)), (<<Images>> :> LinkNode(<<gone>>))}

NestedTrees ==
    {Tree(Root(TRUE, TRUE) @@ Restrict(TopFiles, T) @@ s
          @@ (<<sub, photo>> :> FileNode(4)) @@ img) :
        T \in {{}, {<<photo>>}}, s \in SubChoices, img \in ImagesChoices}

\* the target is missing, a file, unreadable, read-only; a file is named
\* like a category folder
SpecialTrees ==
    {Tree(NoNodes),
     Tree(<<>> :> FileNode(9)),
     Tree(Root(FALSE, TRUE) @@ Restrict(TopFiles, {<<photo>>})),
     Tree(Root(TRUE, FALSE) @@ Restrict(TopFiles, {<<photo>>})),
     Tree(Root(TRUE, FALSE) @@ Restrict(TopFiles, {<<photo>>})
          @@ ImagesUpTo(0, TRUE)),
     Tree(Root(TRUE, TRUE) @@ Restrict(TopFiles, {<<photo>>})
          @@ (<<Images>> :> FileNode(8)))}

\* extensions in every case, unknown, empty and absent
ExtensionTrees ==
    {Tree(Root(TRUE, TRUE) @@ (<<WithExt("pic", "PNG")>> :> FileNode(11))
          @@ (<<WithExt("pic", "png")>> :> FileNode(12))
          @@ (<<WithExt("pic", "PnG")>> :> FileNode(13))),
     Tree(Root(TRUE, TRUE) @@ (<<WithExt("clip", "ts")>> :> FileNode(14))
          @@ (<<WithExt("clip", "TS")>> :> FileNode(15))
          @@ (<<WithExt("w", "xyz")>> :> FileNode(16))),
     Tree(Root(TRUE, TRUE) @@ (<<WithExt("v", "XYZ")>> :> FileNode(17))
          @@ (<<Plain(".hidden")>> :> FileNode(18))
          @@ (<<WithExt("a", "")>> :> FileNode(19)))}

\* an Others folder that already holds note, or note and note_1
OthersTrees ==
    {Tree(Root(TRUE, TRUE) @@ Restrict(TopFiles, {<<note>>})
          @@ (<<Others>> :> DirNode(TRUE, TRUE, 0))
          @@ (<<Others, note>> :> FileNode(20)) @@ extra) :
        extra \in {NoNodes,
                   (<<Others, new_filename(note, 1)>> :> FileNode(21))}}

\* an Images folder in which every candidate photo_1.jpg .. photo_10000.jpg
\* is taken: without and with a file of the fallback's name; one in which
\* only the last candidate is free; and one beside a second photo.jpg in sub
FullTrees ==
    {[nodes |-> Root(TRUE, TRUE) @@ Restrict(TopFiles, {<<photo>>})
                @@ ImagesUpTo(0, TRUE) @@ extra,
      dense |-> {[dir |-> <<Images>>, name |-> photo]},
      holes |-> {}] :
        extra \in {NoNodes,
                   (<<Images, fallback_filename(photo, MaxAttempts + 1, 1)>>
                        :> FileNode(7))}}
    \cup
    {[nodes |-> Root(TRUE, TRUE) @@ Restrict(TopFiles, {<<photo>>})
                @@ ImagesUpTo(0, TRUE),
      dense |-> {[dir |-> <<Images>>, name |-> photo]},
      holes |-> {<<Images, new_filename(photo, MaxAttempts)>>}]}
    \cup
    {[nodes |-> Root(TRUE, TRUE) @@ Restrict(TopFiles, {<<photo>>})
                @@ ImagesUpTo(0, TRUE) @@ (<<sub>> :> DirNode(TRUE, TRUE, 0))
                @@ (<<sub, photo>> :> FileNode(4)),
      dense |-> {[dir |-> <<Images>>, name |-> photo]},
      holes |-> {}]}

\* a subdirectory that is read-only, or on another device, holding a file
\* that may not be read: it can be neither renamed nor copied into a
\* category folder
LockedTrees ==
    {Tree(Root(TRUE, TRUE) @@ Restrict(TopFiles, T)
          @@ (<<sub>> :> s)
          @@ (<<sub, WithExt("locked", "jpg")>> :> LockedFileNode(22))) :
        T \in {{}, {<<doc>>}},
        s \in {DirNode(TRUE, FALSE, 0), DirNode(TRUE, TRUE, 1)}}

InitTrees ==
    BasicTrees \cup NestedTrees \cup SpecialTrees \cup ExtensionTrees
    \cup OthersTrees \cup FullTrees \cup LockedTrees

---------------------------------------------------------------------------
(* Sorter::run *)

NoRun == [kind |-> "none", result |-> "none", stats |-> DefaultStats,
          relocated |-> {}]

Init ==
    /\ fs \in InitTrees
    /\ recursive \in BOOLEAN
    /\ pc = "idle"
    /\ dry_run = FALSE
    /\ plans = <<>>
    /\ idx = 0
    /\ stats = DefaultStats
    /\ result = "none"
    /\ runs = 0
    /\ fs0 = fs
    /\ attempts = <<>>
    /\ fsGen = <<>>
    /\ relocated = {}
    /\ prev = NoRun

\* the three checks run makes before it collects anything
preconditions(f) ==
    /\ exists(f, target_dir)
    /\ is_directory(f, target_dir)
    /\ can_read_dir(f, target_dir)

\* a new run is started: the run before it becomes prev
Begin(dry) ==
    /\ pc = "idle"
    /\ runs < MaxRuns
    /\ runs' = runs + 1
    /\ dry_run' = dry
    /\ fs0' = fs
    /\ prev' = IF runs = 0 THEN NoRun
               ELSE [kind |-> IF dry_run THEN "dry" ELSE "exec",
                     result |-> result, stats |-> stats,
                     relocated |-> relocated]
    /\ relocated' = {}
    /\ attempts' = <<>>
    /\ fsGen' = <<>>
    /\ idx' = 0
    /\ UNCHANGED <<fs, recursive>>

\* run returns Err: a precondition fails, or collect_files does
RunAbort(dry) ==
    /\ Begin(dry)
    /\ preconditions(fs) => collect_files(fs, recursive, target_dir) = {}
    /\ pc' = "idle"
    /\ result' = "err"
    /\ stats' = DefaultStats
    /\ plans' = <<>>

\* run finds no file and returns Ok(SortStats::default())
RunEmpty(dry) ==
    /\ Begin(dry)
    /\ preconditions(fs)
    /\ <<>> \in collect_files(fs, recursive, target_dir)
    /\ pc' = "idle"
    /\ result' = "ok"
    /\ stats' = DefaultStats
    /\ plans' = <<>>

\* run with the dry_run flag ignored: the plans are executed
RunPlanExecuting(dry) ==
    /\ Begin(dry)
    /\ preconditions(fs)
    /\ \E files \in collect_files(fs, recursive, target_dir) :
          /\ files # <<>>
          /\ plans' = create_plans(fs, files)
    /\ pc' = "precreate"
    /\ result' = "none"
    /\ stats' = DefaultStats

\* run collects files and builds the plans
RunPlan(dry) ==
    /\ Begin(dry)
    /\ preconditions(fs)
    /\ \E files \in collect_files(fs, recursive, target_dir) :
          /\ files # <<>>
          /\ plans' = create_plans(fs, files)
    /\ pc' = IF dry THEN "dry" ELSE "precreate"
    /\ result' = "none"
    /\ stats' = DefaultStats

\* execute_dry_run and the return of run
DryRun ==
    /\ pc = "dry"
    /\ stats' = execute_dry_run(plans)
    /\ result' = "ok"
    /\ pc' = "idle"
    /\ plans' = <<>>
    /\ UNCHANGED <<fs, recursive, dry_run, idx, runs, fs0, attempts, fsGen,
                   relocated, prev>>

\* execute_move, the category folders are created
PreCreate ==
    /\ pc = "precreate"
    /\ \E made \in {precreate_from(fs, plans, 1)} :
          /\ made.ok
          /\ fs' = made.fs
    /\ pc' = "moving"
    /\ stats' = [DefaultStats EXCEPT !.total_files = Len(plans)]
    /\ UNCHANGED <<recursive, dry_run, plans, idx, result, runs, fs0,
                   attempts, fsGen, relocated, prev>>

\* execute_move, ensure_directory fails and `?` returns the error from run
PreCreateFail ==
    /\ pc = "precreate"
    /\ \E made \in {precreate_from(fs, plans, 1)} :
          /\ ~made.ok
          /\ fs' = made.fs
    /\ pc' = "idle"
    /\ result' = "err"
    /\ plans' = <<>>
    /\ UNCHANGED <<recursive, dry_run, idx, stats, runs, fs0, attempts,
                   fsGen, relocated, prev>>

\* one iteration of execute_move's loop over the plans
MoveStep ==
    /\ pc = "moving"
    /\ idx < Len(plans)
    /\ \E now \in 1..MaxClock, plan \in {plans[idx + 1]} :
       \E moved \in {move_file_with_dedup(fs, plan.source,
                        join(target_dir, folder_name(plan.category)), now)},
          data \in {IF Has(fs, plan.source) THEN Node(fs, plan.source).data
                    ELSE 0} :
            /\ fs' = moved.fs
            /\ fsGen' = moved.seen
            /\ attempts' = Append(attempts,
                    [source |-> plan.source, ok |-> moved.ok,
                     destination |-> moved.destination,
                     was_renamed |-> moved.was_renamed, data |-> data])
            /\ IF moved.ok
               THEN /\ stats' = [stats EXCEPT
                        !.category_counts = count_category(@, plan.category),
                        !.renamed_files =
                            IF moved.was_renamed THEN @ + 1 ELSE @,
                        !.moved_files = @ + 1]
                    /\ relocated' = relocated \cup {data}
               ELSE /\ stats' = [stats EXCEPT !.error_count = @ + 1]
                    /\ relocated' = relocated
    /\ idx' = idx + 1
    /\ UNCHANGED <<recursive, pc, dry_run, plans, result, runs, fs0, prev>>

\* execute_move returns Ok(stats), and run returns it
Return ==
    /\ pc = "moving"
    /\ idx = Len(plans)
    /\ pc' = "idle"
    /\ result' = "ok"
    /\ plans' = <<>>
    /\ attempts' = <<>>
    /\ fsGen' = <<>>
    /\ idx' = 0
    /\ UNCHANGED <<fs, recursive, dry_run, stats, runs, fs0, relocated, prev>>

Next ==
    \/ \E dry \in BOOLEAN : RunAbort(dry)
    \/ \E dry \in BOOLEAN : RunEmpty(dry)
    \/ \E dry \in BOOLEAN : RunPlan(dry)
    \/ DryRun
    \/ PreCreate
    \/ PreCreateFail
    \/ MoveStep
    \/ Return

Spec == Init /\ [][Next]_vars

---------------------------------------------------------------------------
(* Properties *)

\* the last iteration of execute_move's loop: what it did, the folder it
\* moved into, the name of its file, and the tree generate_unique_path saw
LastAttempt == attempts[Len(attempts)]
LastDestDir == join(target_dir, folder_name(plans[idx].category))
LastFilename == file_name(plans[idx].source)[1]
Seen == fsGen[1]

\* the counter a destination name ends in, 0 if it ends in none
Counter(path) ==
    IF Last(path).nums = <<>> THEN 0 ELSE Last(Last(path).nums)

\* every entry of g other than `source` is an entry of f, with the same node
Untouched(g, f, source) ==
    /\ f.dense = g.dense
    /\ f.holes = g.holes
    /\ \A p \in DOMAIN g.nodes \ {source} :
          p \in DOMAIN f.nodes /\ f.nodes[p] = g.nodes[p]

\* the plain name or one of the MaxAttempts candidates is free in the folder
SomeCandidateFree ==
    \/ ~exists(Seen, join(LastDestDir, LastFilename))
    \/ \E k \in 1..MaxAttempts :
          ~exists(Seen, join(LastDestDir, new_filename(LastFilename, k)))

\* C1: a simulate run (dry_run = true) leaves the filesystem unchanged: from
\* its start to its return the tree, the paths and their contents, is the
\* tree the run was started on, also when a prospective destination exists,
\* and no category folder is created.
C1_DryRunLeavesTreeUnchanged ==
    (runs > 0 /\ dry_run) => fs = fs0

\* a simulate run has returned after it found a conflict and planned a move
\* into a folder that does not exist; the folder still does not exist
C1_DryRunWithConflictReturned ==
    /\ dry_run
    /\ pc = "idle"
    /\ result = "ok"
    /\ stats.renamed_files > 0
    /\ "Documents" \in DOMAIN stats.category_counts
    /\ ~exists(fs, join(target_dir, folder_name("Documents")))
    /\ fs = fs0

C4_FreeNameReturnedUnchanged ==
    (fsGen # <<>> /\ ~exists(Seen, join(LastDestDir, LastFilename))) =>
        LastAttempt.destination = <<join(LastDestDir, LastFilename)>>

\* generate_unique_path was called for a name that was free, and the file
\* was moved to that name
C4_FreeNameUsed ==
    /\ fsGen # <<>>
    /\ ~exists(Seen, join(LastDestDir, LastFilename))
    /\ LastAttempt.ok
    /\ ~LastAttempt.was_renamed
    /\ LastAttempt.destination = <<join(LastDestDir, LastFilename)>>

\* C5: when dest_dir/f exists and some candidate with a counter in 1..10000
\* is free, generate_unique_path returns dest_dir/"{stem}_{n}.{ext}"
\* ("{stem}_{n}" without extension) for the smallest such counter n: the
\* candidates 1..n-1 all exist and candidate n does not.
C5_SmallestFreeCounter ==
    (/\ fsGen # <<>>
     /\ exists(Seen, join(LastDestDir, LastFilename))
     /\ \E k \in 1..MaxAttempts :
           ~exists(Seen, join(LastDestDir, new_filename(LastFilename, k))))
    => LET n == Counter(LastAttempt.destination[1])
       IN  /\ n \in 1..MaxAttempts
           /\ LastAttempt.destination
                = <<join(LastDestDir, new_filename(LastFilename, n))>>
           /\ ~exists(Seen, LastAttempt.destination[1])
           /\ \A m \in 1..(n - 1) :
                 exists(Seen, join(LastDestDir,
                                   new_filename(LastFilename, m)))

\* generate_unique_path returned the last candidate, number 10000, all the
\* candidates before it being taken
C5_LastCounterUsed ==
    /\ fsGen # <<>>
    /\ exists(Seen, join(LastDestDir, LastFilename))
    /\ LastAttempt.ok
    /\ LastAttempt.destination
         = <<join(LastDestDir, new_filename(LastFilename, MaxAttempts))>>

\* The regular files of a tree that are where Where(path) holds.  Where
\* looks at the directories above a file only, so the files of a dense run
\* are all in or all out.
RegularFiles(f, Where(_)) ==
    {p \in DOMAIN f.nodes :
        p # <<>> /\ f.nodes[p].kind = "file" /\ Where(p)}
    \cup (UNION {{join(d.dir, new_filename(d.name, k)) :
                     k \in 1..MaxAttempts} :
                    d \in {d \in f.dense : Where(join(d.dir, d.name))}}
          \ f.holes)

\* the names of the category folders
CategoryFolders == {Plain(c) : c \in Category}

\* the files the plans were built for
Sources == {plans[i].source : i \in 1..Len(plans)}

\* run has just collected the files of fs and built the plans / has just
\* returned because it collected no file
Collected == pc \in {"dry", "precreate"}
CollectedNothing ==
    pc = "idle" /\ runs > 0 /\ result = "ok" /\ stats.total_files = 0

\* C2 as stated: in an execute run that directly follows an execute run on
\* the same tree, no file the first run relocated into a category folder is
\* collected again or moved again.
C2_SecondRunLeavesRelocatedFiles ==
    (runs > 1 /\ ~dry_run /\ prev.kind = "exec") =>
        /\ \A i \in 1..Len(plans) :
              Has(fs0, plans[i].source) =>
                  Node(fs0, plans[i].source).data \notin prev.relocated
        /\ \A i \in 1..Len(attempts) :
              attempts[i].data \notin prev.relocated

\* C6 as stated: an execute run that has built its plans ends only by
\* returning its statistics, after one move_file_with_dedup call per plan,
\* made in plan order, the failed calls counted in error_count.
C6_EveryPlanAttemptedThenStats ==
    [][(~dry_run /\ pc \in {"precreate", "moving"} /\ pc' = "idle") =>
          /\ result' = "ok"
          /\ Len(attempts) = Len(plans)
          /\ \A i \in 1..Len(plans) : attempts[i].source = plans[i].source
          /\ stats'.error_count
               = Cardinality({i \in 1..Len(attempts) : ~attempts[i].ok})]_vars

\* C7 as stated, for the execute runs in which no move fails: an execute
\* run that directly follows a simulate run on the same tree returns the
\* moved_files, renamed_files and category_counts the simulate run returned.
C7_DryRunForecastsExecute ==
    (/\ runs > 1
     /\ prev.kind = "dry"
     /\ prev.result = "ok"
     /\ ~dry_run
     /\ pc = "idle"
     /\ result = "ok"
     /\ stats.error_count = 0)
    => /\ stats.moved_files = prev.stats.moved_files
       /\ stats.renamed_files = prev.stats.renamed_files
       /\ stats.category_counts = prev.stats.category_counts

\* the file is directly under the target
TopLevel(p) == Len(p) = 1
\* the file is not inside a directory named like a category that is directly
\* under the target
OutsideTopLevelCategoryFolders(p) ==
    ~(Len(p) > 1 /\ p[1] \in CategoryFolders)
\* the file has no directory named like a category above it, at any depth
OutsideCategoryNamedDirectories(p) ==
    ~\E k \in 1..(Len(p) - 1) : p[k] \in CategoryFolders

\* the files C8 expects as stated / as amended
ExpectedTopLevelOnly(f) ==
    IF ~recursive THEN RegularFiles(f, TopLevel)
    ELSE RegularFiles(f, OutsideTopLevelCategoryFolders)
ExpectedAnyDepth(f) ==
    IF ~recursive THEN RegularFiles(f, TopLevel)
    ELSE RegularFiles(f, OutsideCategoryNamedDirectories)

\* C8 as stated: collect_files returns, each once, exactly the regular
\* non-symlink files that are immediate children of the target, and in
\* recursive mode those at any depth, excluding only the files inside a
\* top-level directory named like a category and what lies behind a symbolic
\* link.
C8_CollectsAllButTopLevelCategoryFolders ==
    /\ Collected =>
          /\ Sources = ExpectedTopLevelOnly(fs)
          /\ Cardinality(Sources) = Len(plans)
    /\ CollectedNothing => ExpectedTopLevelOnly(fs) = {}

\* C8 amended: collect_files returns, each once, exactly the regular
\* non-symlink files that are immediate children of the target, and in
\* recursive mode those at any depth that have no directory named like a
\* category, at whatever depth, above them and do not lie behind a symbolic
\* link.
C8_CollectsAllButCategoryNamedDirectories ==
    /\ Collected =>
          /\ Sources = ExpectedAnyDepth(fs)
          /\ Cardinality(Sources) = Len(plans)
    /\ CollectedNothing => ExpectedAnyDepth(fs) = {}

\* a recursive run collected the file of a subdirectory and left out the
\* file below a directory named Images inside that subdirectory
C8_NestedCategoryDirectorySkipped ==
    /\ Collected
    /\ recursive
    /\ <<sub, photo>> \in Sources
    /\ is_file(fs, <<sub, Images, WithExt("deep", "PNG")>>)
    /\ <<sub, Images, WithExt("deep", "PNG")>> \notin Sources

\* spellings of one extension / strings the extension table does not hold
CaseVariants == {{"png", "PNG", "PnG"}, {"ts", "TS"}, {"pdf", "Pdf"}}
UnknownExtensions == {"xyz", "XYZ", "", "hidden"}

\* C9: classification is total and depends on the extension alone:
\* get_category returns Others for a string the table does not hold and one
\* category for all the spellings of a known extension, and categorize_file
\* gives every file a category, Others to a file without extension.
C9_ClassificationTotalCaseInsensitive ==
    /\ \A e \in UnknownExtensions : get_category(e) = "Others"
    /\ \A V \in CaseVariants : \A a, b \in V :
          get_category(a) = get_category(b) /\ get_category(a) # "Others"
    /\ \A i \in 1..Len(plans) :
          LET e == extension(Last(plans[i].source))
          IN  /\ plans[i].category \in Category
              /\ e = <<>> => plans[i].category = "Others"
              /\ e # <<>> /\ e[1] \in UnknownExtensions =>
                    plans[i].category = "Others"
              /\ \A j \in 1..Len(plans) : \A V \in CaseVariants :
                    (/\ e # <<>>
                     /\ e[1] \in V
                     /\ extension(Last(plans[j].source)) # <<>>
                     /\ extension(Last(plans[j].source))[1] \in V)
                    => plans[i].category = plans[j].category

\* the plans of pic.PNG, pic.png and pic.PnG are built, all three for Images
C9_ThreeSpellingsPlanned ==
    /\ Len(plans) = 3
    /\ \A i \in 1..3 : plans[i].category = "Images"
    /\ {extension(Last(plans[i].source)) : i \in 1..3}
         = {<<"PNG">>, <<"png">>, <<"PnG">>}

\* the target does not exist, is not a directory, or cannot be listed
Unusable(f) ==
    \/ ~Has(f, target_dir)
    \/ Node(f, target_dir).kind # "dir"
    \/ ~Node(f, target_dir).readable

\* C10: when the target does not exist, is not a directory or cannot be
\* listed, run returns an error and no statistics, no plan is built, nothing
\* is attempted and the filesystem is unchanged.
C10_UnusableTargetAbortsUntouched ==
    (runs > 0 /\ Unusable(fs0)) =>
        /\ pc = "idle"
        /\ result = "err"
        /\ stats = DefaultStats
        /\ plans = <<>>
        /\ attempts = <<>>
        /\ fs = fs0

\* a run on a target that exists and holds a file but cannot be listed has
\* returned an error
C10_UnreadableTargetAborted ==
    /\ runs > 0
    /\ Has(fs0, target_dir)
    /\ Node(fs0, target_dir).kind = "dir"
    /\ ~Node(fs0, target_dir).readable
    /\ Has(fs0, <<photo>>)
    /\ result = "err"
    /\ fs = fs0

\* the target of the scenario: photo.jpg, doc.pdf, note and Images/photo.jpg
ScenarioTree == Tree(Root(TRUE, TRUE) @@ TopFiles @@ ImagesUpTo(0, TRUE))

\* the file at path p of tree f has the content the file at q has in g
SameFile(f, p, g, q) ==
    /\ Has(f, p) /\ Has(g, q)
    /\ Node(f, p).kind = "file"
    /\ Node(f, p) = Node(g, q)

\* C11: an execute run, non-recursive, on a target holding photo.jpg,
\* doc.pdf, note and Images/photo.jpg ends, in whatever order read_dir
\* yields the files, with doc.pdf at Documents/doc.pdf, note at Others/note,
\* photo.jpg at Images/photo_1.jpg, Images/photo.jpg as it was, and the
\* statistics moved_files = 3, renamed_files = 1, error_count = 0.
C11_ScenarioThreeMovedOneRenamed ==
    (runs > 0 /\ ~dry_run /\ ~recursive /\ fs0 = ScenarioTree /\ pc = "idle")
    => /\ result = "ok"
       /\ stats.moved_files = 3
       /\ stats.renamed_files = 1
       /\ stats.error_count = 0
       /\ SameFile(fs, <<Plain("Documents"), doc>>, fs0, <<doc>>)
       /\ SameFile(fs, <<Others, note>>, fs0, <<note>>)
       /\ SameFile(fs, <<Images, new_filename(photo, 1)>>, fs0, <<photo>>)
       /\ SameFile(fs, <<Images, photo>>, fs0, <<Images, photo>>)
       /\ ~Has(fs, <<photo>>) /\ ~Has(fs, <<doc>>) /\ ~Has(fs, <<note>>)

\* the execute run of the scenario has returned, photo.jpg moved under the
\* name photo_1.jpg
C11_ScenarioRunReturned ==
    /\ runs > 0
    /\ ~dry_run
    /\ ~recursive
    /\ fs0 = ScenarioTree
    /\ pc = "idle"
    /\ result = "ok"
    /\ stats.total_files = 3
    /\ Has(fs, <<Images, new_filename(photo, 1)>>)

\* the folder of category c did not exist when the run started and exists
NewFolder(c) ==
    /\ ~exists(fs0, join(target_dir, folder_name(c)))
    /\ exists(fs, join(target_dir, folder_name(c)))

\* execute_move has processed its last plan and is about to return
LoopDone == ~dry_run /\ pc = "moving" /\ idx = Len(plans)

\* C12 as stated: when execute_move returns, a category folder that did not
\* exist before the run exists only if a file was moved into it during the
\* run: a move into it was counted, or at least the folder holds an entry.
C12_NewFolderReceivedFile ==
    LoopDone =>
        \A c \in Category :
            NewFolder(c) =>
                \/ c \in DOMAIN stats.category_counts
                \/ children(fs, <<folder_name(c)>>) # {}

\* C12 amended: from the pre-creation to the return of execute_move, a
\* category folder that did not exist before the run exists only if a file
\* of the run was planned for that category, whether or not its move
\* succeeded.
C12_NewFolderWasPlanned ==
    (~dry_run /\ pc = "moving") =>
        \A c \in Category :
            NewFolder(c) => \E i \in 1..Len(plans) : plans[i].category = c

\* execute_move is about to return: the only move planned for Images
\* failed, and the Images folder it created stays behind, empty
C12_NewFolderLeftEmpty ==
    /\ LoopDone
    /\ NewFolder("Images")
    /\ \E i \in 1..Len(plans) : plans[i].category = "Images"
    /\ "Images" \notin DOMAIN stats.category_counts
    /\ stats.error_count > 0
    /\ children(fs, <<Images>>) = {}

\* C13: a file whose move failed is still at its original path, with its
\* content: after every failed move_file_with_dedup of an execute run, until
\* the run returns, the source of the failed attempt exists as it was before
\* the attempt (the source is deleted only after a successful copy).
C13_FailedMoveLeavesSource ==
    \A i \in 1..Len(attempts) :
        (~attempts[i].ok /\ attempts[i].data # 0) =>
            /\ Has(fs, attempts[i].source)
            /\ Node(fs, attempts[i].source).kind = "file"
            /\ Node(fs, attempts[i].source).data = attempts[i].data

\* move_file has failed, the rename and the copy both refused: the source
\* is where it was and nothing is at the destination
C13_RenameAndCopyFailed ==
    /\ fsGen # <<>>
    /\ ~LastAttempt.ok
    /\ LastAttempt.data # 0
    /\ ~exists(fs, LastAttempt.destination[1])
    /\ Has(fs, LastAttempt.source)
    /\ fs = Seen

\* the target is a directory that can be listed and has no entry
EmptyTarget(f) == ~Unusable(f) /\ children(f, target_dir) = {}

\* C14: a run, simulate or execute, on a target directory without entries
\* returns statistics whose counters are all zero and whose category_counts
\* is empty, and creates no folder: the tree is as it was.
C14_EmptyTargetZeroStats ==
    (runs > 0 /\ EmptyTarget(fs0)) =>
        /\ pc = "idle"
        /\ result = "ok"
        /\ stats.total_files = 0
        /\ stats.moved_files = 0
        /\ stats.renamed_files = 0
        /\ stats.skipped_files = 0
        /\ stats.error_count = 0
        /\ DOMAIN stats.category_counts = {}
        /\ fs = fs0
        /\ \A c \in Category : ~Has(fs, <<folder_name(c)>>)

\* an execute run on a target without entries has returned its statistics
C14_EmptyTargetRunReturned ==
    /\ runs > 0
    /\ ~dry_run
    /\ EmptyTarget(fs0)
    /\ pc = "idle"
    /\ result = "ok"
    /\ fs.nodes = Root(TRUE, TRUE)

\* C15: in recursive mode collect_files never descends into a directory
\* whose own name is a category's folder name, at any depth: no collected
\* file has such a directory above it.
C15_NothingBelowCategoryNamedDirectory ==
    (Collected /\ recursive) =>
        \A i \in 1..Len(plans) :
            \A k \in 1..(Len(plans[i].source) - 1) :
                plans[i].source[k] \notin CategoryFolders

\* a recursive run has collected files of a tree that holds a file in
\* Images directly under the target and a file in sub/Images, and neither
\* of the two
C15_TwoDepthsSkipped ==
    /\ Collected
    /\ recursive
    /\ plans # <<>>
    /\ is_file(fs, <<Images, photo>>)
    /\ is_file(fs, <<sub, Images, WithExt("deep", "PNG")>>)
    /\ <<Images, photo>> \notin Sources
    /\ <<sub, Images, WithExt("deep", "PNG")>> \notin Sources

\* attempts i and j of the run moved files of one name into one folder
SameNameMoved(i, j) ==
    /\ attempts[i].ok /\ attempts[j].ok
    /\ Last(attempts[i].source) = Last(attempts[j].source)
    /\ Front(attempts[i].destination[1]) = Front(attempts[j].destination[1])

\* the file moved by attempt i is at the destination of attempt i
Arrived(i) ==
    /\ exists(fs, attempts[i].destination[1])
    /\ Node(fs, Final(fs, attempts[i].destination[1])[1]).data
         = attempts[i].data

FallbackReturned ==
    \E t \in 1..MaxClock :
        LastAttempt.destination
          = <<join(LastDestDir,
                   fallback_filename(LastFilename, MaxAttempts + 1, t))>>

\* C17: generate_unique_path always returns, and returns a path, never an
\* error: the plain name, or the name of one of the candidates with the
\* counters 1..10000 (it tests no candidate beyond number 10000), or, exactly
\* when the plain name and all those candidates exist, the name qualified
\* with the counter 10001 and the timestamp.
C17_ResolverReturnsWithinLimit ==
    fsGen # <<>> =>
        /\ Len(LastAttempt.destination) = 1
        /\ \/ LastAttempt.destination = <<join(LastDestDir, LastFilename)>>
           \/ /\ Counter(LastAttempt.destination[1]) \in 1..MaxAttempts
              /\ LastAttempt.destination
                   = <<join(LastDestDir,
                            new_filename(LastFilename,
                                Counter(LastAttempt.destination[1])))>>
           \/ FallbackReturned
        /\ FallbackReturned <=> ~SomeCandidateFree

\* photo.jpg and photo_1.jpg .. photo_10000.jpg all existed in Images, the
\* timestamp-qualified name was returned and the file was moved to it
C17_FallbackNameUsed ==
    /\ fsGen # <<>>
    /\ ~SomeCandidateFree
    /\ FallbackReturned
    /\ LastAttempt.ok
    /\ Has(fs, LastAttempt.destination[1])
    /\ Node(fs, LastAttempt.destination[1]).data = LastAttempt.data

\* the sum of the values of a map of counters
RECURSIVE SumOf(_)
SumOf(counts) ==
    IF DOMAIN counts = {} THEN 0
    ELSE LET c == CHOOSE c \in DOMAIN counts : TRUE
         IN  counts[c] + SumOf([d \in DOMAIN counts \ {c} |-> counts[d]])

\* C18: the accounting of execute_move: after every processed plan
\* moved_files + error_count is the number of plans processed, and at the
\* end of the run it is total_files, the number of plans; all along the sum
\* of category_counts is moved_files, renamed_files <= moved_files and
\* skipped_files is 0.
C18_ExecuteAccounting ==
    /\ (~dry_run /\ pc = "moving") =>
          /\ stats.moved_files + stats.error_count = idx
          /\ idx <= Len(plans)
          /\ stats.total_files = Len(plans)
          /\ SumOf(stats.category_counts) = stats.moved_files
          /\ stats.renamed_files <= stats.moved_files
          /\ stats.skipped_files = 0
    /\ (~dry_run /\ pc = "idle" /\ runs > 0 /\ result = "ok") =>
          /\ stats.moved_files + stats.error_count = stats.total_files
          /\ SumOf(stats.category_counts) = stats.moved_files
          /\ stats.renamed_files <= stats.moved_files
          /\ stats.skipped_files = 0

\* an execute run has returned after a move that succeeded under a new
\* name and a move that failed
C18_MixedRunReturned ==
    /\ ~dry_run
    /\ pc = "idle"
    /\ runs > 0
    /\ result = "ok"
    /\ stats.moved_files >= 1
    /\ stats.renamed_files >= 1
    /\ stats.error_count >= 1
    /\ stats.total_files = stats.moved_files + stats.error_count

====
